---- MODULE Spec2Model ----
(***************************************************************************)
(* A model of pistache's network-address layer (include/pistache/net.h,    *)
(* src/common/net.cc) and of the Tcp::Handler transport association        *)
(* (include/pistache/tcp.h).                                               *)
(*                                                                         *)
(* Text is a sequence of one-character strings.  A C string is such a      *)
(* sequence without its terminating NUL; reading one position past the     *)
(* end of a C string reads the NUL.                                        *)
(***************************************************************************)
EXTENDS Integers, Sequences, FiniteSets, TLC

(***************************************************************************)
(* Bounds of the model.                                                    *)
(***************************************************************************)
\* AddrInfo objects that may exist at the same time
NumInst == 3
\* successful getaddrinfo calls in one behaviour
MaxLists == 2
\* records in one resolver list
MaxLen == 2
\* Tcp::Handler objects
NumHandlers == 2
\* Transport objects
NumTransports == 3
\* non-zero bytes found after text copied into an uninitialised array
MaxGarbage == 2
\* characters of the longest Unix socket path tried
MaxPathLen == 110

VARIABLES
    \* ---- AddrInfo ----
    live,        \* live[i]: object i is between its constructor and destructor
    addrs,       \* addrs[i]: the member `struct addrinfo *addrs` of object i
    listLen,     \* listLen[l]: records of resolver list l, 0 while not returned
    releases,    \* releases[l]: how often freeaddrinfo was given list l
    aiLast,      \* the last AddrInfo operation and what it saw
    \* ---- Tcp::Handler ----
    hExists,     \* hExists[h]: handler h has been constructed
    transport_,  \* transport_[h]: the member `Transport *transport_`
    hAssoc,      \* hAssoc[h]: the transport the framework associated with h
    hLast,       \* hLast[h]: the last transport() call of h and its outcome
    \* ---- one call of a function of net.cc ----
    fn,          \* the function called
    arg,         \* its argument
    env,         \* what the platform decides: uninitialised memory, faults,
                 \* byte order
    pc,          \* "call" before the call, "done" after it
    ret          \* what the call left behind

aiVars == <<live, addrs, listLen, releases, aiLast>>
hVars == <<hExists, transport_, hAssoc, hLast>>
netVars == <<fn, arg, env, pc, ret>>
vars == <<live, addrs, listLen, releases, aiLast,
          hExists, transport_, hAssoc, hLast, fn, arg, env, pc, ret>>
\* what the operations of one component leave alone
notAi == <<hVars, netVars>>
notH == <<aiVars, netVars>>
notNet == <<aiVars, hVars>>

(***************************************************************************)
(* AddrInfo (net.h).  A resolver list l is the chain of nodes <<l, 1>>,    *)
(* ..., <<l, listLen[l]>> linked by ai_next; a pointer is a node or NULL.  *)
(***************************************************************************)
Inst == 1..NumInst
Lists == 1..MaxLists
NULL == <<0, 0>>

\* ai->ai_next
ai_next(ai, len) == IF ai[2] < len[ai[1]] THEN <<ai[1], ai[2] + 1>> ELSE NULL

\* iterator begin() const { return iterator(addrs); }
begin(a, i) == a[i]

\* iterator end() const { return iterator(); }   with iterator() : ai(nullptr)
end == NULL

\* The records a range-for over an AddrInfo visits: from begin(), by
\* operator++ (ai = ai->ai_next), until the cursor equals end().
RECURSIVE Iterate(_, _)
Iterate(it, len) ==
    IF it = end THEN <<>> ELSE <<it>> \o Iterate(ai_next(it, len), len)

Records(a, len, i) == Iterate(begin(a, i), len)

NoOp == [op |-> "none", dst |-> 0, src |-> 0, dstBefore |-> <<>>,
         srcBefore |-> <<>>, ptrBefore |-> NULL, released |-> NULL]

\* ::freeaddrinfo(p): the whole list p heads goes back to the resolver
freeaddrinfo(rel, p) == [rel EXCEPT ![p[1]] = @ + 1]

AddrInfoInit ==
    /\ live = [i \in Inst |-> FALSE]
    /\ addrs = [i \in Inst |-> NULL]
    /\ listLen = [l \in Lists |-> 0]
    /\ releases = [l \in Lists |-> 0]
    /\ aiLast = NoOp

\* AddrInfo() : addrs(nullptr)
DefaultCtor(i) ==
    /\ ~live[i]
    /\ live' = [live EXCEPT ![i] = TRUE]
    /\ addrs' = [addrs EXCEPT ![i] = NULL]
    /\ aiLast' = [NoOp EXCEPT !.op = "DefaultCtor", !.dst = i]
    /\ UNCHANGED <<listLen, releases>>
    /\ UNCHANGED notAi

\* AddrInfo(node, service, hints) when getaddrinfo returns 0: the resolver
\* hands out a fresh list of n >= 1 records and addrs points to its head.
ResolveCtor(i, n) ==
    /\ ~live[i]
    /\ \E l \in Lists :
        /\ listLen[l] = 0
        /\ \A k \in Lists : k < l => listLen[k] > 0
        /\ listLen' = [listLen EXCEPT ![l] = n]
        /\ addrs' = [addrs EXCEPT ![i] = <<l, 1>>]
    /\ live' = [live EXCEPT ![i] = TRUE]
    /\ aiLast' = [NoOp EXCEPT !.op = "ResolveCtor", !.dst = i]
    /\ UNCHANGED releases
    /\ UNCHANGED notAi

\* AddrInfo(node, service, hints) when getaddrinfo returns an error: the
\* constructor throws AddrResolutionError, no object comes to exist and no
\* list was handed out.
ResolveCtorThrows(i) ==
    /\ ~live[i]
    /\ aiLast' = [NoOp EXCEPT !.op = "AddrResolutionError", !.dst = i]
    /\ UNCHANGED <<live, addrs, listLen, releases>>
    /\ UNCHANGED notAi

\* A faulty move constructor: the source keeps its pointer.
MoveCtorKeepsSource(i, j) ==
    /\ ~live[i] /\ live[j] /\ i # j
    /\ live' = [live EXCEPT ![i] = TRUE]
    /\ addrs' = [addrs EXCEPT ![i] = addrs[j]]
    /\ aiLast' = [NoOp EXCEPT !.op = "MoveCtor", !.dst = i, !.src = j,
                              !.srcBefore = Records(addrs, listLen, j)]
    /\ UNCHANGED <<listLen, releases>>
    /\ UNCHANGED notAi

\* AddrInfo(AddrInfo&& other) : addrs(other.addrs) { other.addrs = nullptr; }
\* i is the new object, j is other.
MoveCtor(i, j) ==
    /\ ~live[i] /\ live[j] /\ i # j
    /\ live' = [live EXCEPT ![i] = TRUE]
    /\ addrs' = [addrs EXCEPT ![i] = addrs[j], ![j] = NULL]
    /\ aiLast' = [NoOp EXCEPT !.op = "MoveCtor", !.dst = i, !.src = j,
                              !.srcBefore = Records(addrs, listLen, j)]
    /\ UNCHANGED <<listLen, releases>>
    /\ UNCHANGED notAi

\* A faulty move assignment: the pointer is copied and the source nulled,
\* with nothing done about what the destination held.
MoveAssignOverwrites(i, j) ==
    /\ live[i] /\ live[j]
    /\ addrs' = [[addrs EXCEPT ![i] = addrs[j]] EXCEPT ![j] = NULL]
    /\ aiLast' = [NoOp EXCEPT !.op = "MoveAssign", !.dst = i, !.src = j,
                              !.dstBefore = Records(addrs, listLen, i),
                              !.srcBefore = Records(addrs, listLen, j)]
    /\ UNCHANGED <<live, listLen, releases>>
    /\ UNCHANGED notAi

\* AddrInfo& operator=(AddrInfo&& other) { std::swap(addrs, other.addrs); }
\* i is *this, j is other; i = j is a self-assignment.
MoveAssign(i, j) ==
    /\ live[i] /\ live[j]
    /\ addrs' = [addrs EXCEPT ![i] = addrs[j], ![j] = addrs[i]]
    /\ aiLast' = [NoOp EXCEPT !.op = "MoveAssign", !.dst = i, !.src = j,
                              !.dstBefore = Records(addrs, listLen, i),
                              !.srcBefore = Records(addrs, listLen, j)]
    /\ UNCHANGED <<live, listLen, releases>>
    /\ UNCHANGED notAi

\* A faulty destructor: the list is never given back.
DtorLeaks(i) ==
    /\ live[i]
    /\ live' = [live EXCEPT ![i] = FALSE]
    /\ addrs' = [addrs EXCEPT ![i] = NULL]
    /\ aiLast' = [NoOp EXCEPT !.op = "Dtor", !.src = i,
                              !.ptrBefore = addrs[i]]
    /\ UNCHANGED <<listLen, releases>>
    /\ UNCHANGED notAi

\* ~AddrInfo() { if (addrs) { ::freeaddrinfo(addrs); } }
\* The object ends; its slot reads NULL until a constructor runs in it.
Dtor(i) ==
    /\ live[i]
    /\ live' = [live EXCEPT ![i] = FALSE]
    /\ releases' = IF addrs[i] # NULL THEN freeaddrinfo(releases, addrs[i])
                   ELSE releases
    /\ addrs' = [addrs EXCEPT ![i] = NULL]
    /\ aiLast' = [NoOp EXCEPT !.op = "Dtor", !.src = i,
                              !.ptrBefore = addrs[i],
                              !.released = IF addrs[i] # NULL THEN addrs[i]
                                           ELSE NULL]
    /\ UNCHANGED listLen
    /\ UNCHANGED notAi

Next ==
    \/ \E i \in Inst : DefaultCtor(i)
    \/ \E i \in Inst, n \in 1..MaxLen : ResolveCtor(i, n)
    \/ \E i \in Inst : ResolveCtorThrows(i)
    \/ \E i, j \in Inst : MoveCtor(i, j)
    \/ \E i, j \in Inst : MoveAssign(i, j)
    \/ \E i \in Inst : Dtor(i)

(***************************************************************************)
(* Tcp::Handler (tcp.h).  The constructor and associateTransport are       *)
(* declared in tcp.h and defined in tcp.cc; the framework (Transport, a    *)
(* friend) associates a handler once, with a transport that exists.        *)
(***************************************************************************)
Handlers == 1..NumHandlers
Transports == 1..NumTransports
nullptr == 0
\* the outcome of a call: the exception it threw, or the pointer returned
Returns(tp) == [threw |-> "nothing", value |-> tp]
Throws(what) == [threw |-> what, value |-> nullptr]
NoCall == [assocAtCall |-> nullptr, outcome |-> Throws("no call")]

HandlerInit ==
    /\ hExists = [h \in Handlers |-> FALSE]
    /\ transport_ = [h \in Handlers |-> nullptr]
    /\ hAssoc = [h \in Handlers |-> nullptr]
    /\ hLast = [h \in Handlers |-> NoCall]

\* Handler::Handler(): the handler starts unassociated
Handler_ctor(h) ==
    /\ ~hExists[h]
    /\ hExists' = [hExists EXCEPT ![h] = TRUE]
    /\ transport_' = [transport_ EXCEPT ![h] = nullptr]
    /\ UNCHANGED <<hAssoc, hLast>>
    /\ UNCHANGED notH

\* void Handler::associateTransport(Transport* transport), called by the
\* framework once per handler
associateTransport(h, t) ==
    /\ hExists[h] /\ hAssoc[h] = nullptr
    /\ transport_' = [transport_ EXCEPT ![h] = t]
    /\ hAssoc' = [hAssoc EXCEPT ![h] = t]
    /\ UNCHANGED <<hExists, hLast>>
    /\ UNCHANGED notH

\* A faulty accessor: the pointer is returned unchecked.
transportUnchecked(tp) == Returns(tp)

\* Transport *transport() {
\*     if (!transport_) throw std::logic_error("Orphaned handler");
\*     return transport_; }
transport(tp) == IF tp = nullptr THEN Throws("logic_error") ELSE Returns(tp)

\* a call of transport() on handler h
CallTransport(h) ==
    /\ hExists[h]
    /\ hLast' = [hLast EXCEPT ![h] = [assocAtCall |-> hAssoc[h],
                                      outcome |-> transport(transport_[h])]]
    /\ UNCHANGED <<hExists, transport_, hAssoc>>
    /\ UNCHANGED notH

HandlerNext ==
    \/ \E h \in Handlers : Handler_ctor(h)
    \/ \E h \in Handlers, t \in Transports : associateTransport(h, t)
    \/ \E h \in Handlers : CallTransport(h)

(***************************************************************************)
(* Text and the C library (net.cc).  Positions are 0-based as in C++; npos *)
(* is std::string_view::npos, written -1 so that npos + 1 is 0 as it is in *)
(* size_t arithmetic.                                                      *)
(***************************************************************************)
NUL == "NUL"
npos == -1

\* addr[k] for a view of NUL-terminated text: the byte after the last
\* character is the terminator
At(s, k) == IF k < Len(s) THEN s[k + 1] ELSE NUL

\* the C string that starts at &s[k]
CStr(s, k) == SubSeq(s, k + 1, Len(s))

\* std::string_view::rfind(c)
rfind(s, c) ==
    LET hits == {k \in 0..(Len(s) - 1) : s[k + 1] = c}
    IN  IF hits = {} THEN npos ELSE CHOOSE k \in hits : \A m \in hits : m <= k

\* std::string_view::find(c, pos); a pos at or past the size finds nothing
find(s, c, pos) ==
    LET hits == {k \in 0..(Len(s) - 1) : k >= pos /\ s[k + 1] = c}
    IN  IF pos = npos \/ hits = {} THEN npos
        ELSE CHOOSE k \in hits : \A m \in hits : k <= m

DigitChars == <<"0", "1", "2", "3", "4", "5", "6", "7", "8", "9">>
IsDigit(c) == \E k \in 1..10 : DigitChars[k] = c
DigitVal(c) == (CHOOSE k \in 1..10 : DigitChars[k] = c) - 1

\* the value of a run of decimal digits
RECURSIVE DecVal(_)
DecVal(s) ==
    IF s = <<>> THEN 0
    ELSE DecVal(SubSeq(s, 1, Len(s) - 1)) * 10 + DigitVal(s[Len(s)])

\* the decimal digits of n >= 0, as printf("%u") writes them
RECURSIVE Dec(_)
Dec(n) == IF n < 10 THEN <<DigitChars[n + 1]>>
          ELSE Dec(n \div 10) \o <<DigitChars[(n % 10) + 1]>>

\* how many characters from position k on are white space / digits
RECURSIVE SpaceRun(_, _)
SpaceRun(s, k) == IF At(s, k) = " " THEN 1 + SpaceRun(s, k + 1) ELSE 0
RECURSIVE DigitRun(_, _)
DigitRun(s, k) == IF IsDigit(At(s, k)) THEN 1 + DigitRun(s, k + 1) ELSE 0

\* strtol(nptr, &end, 10): white space, an optional sign, decimal digits.
\* val is the result and end the offset of *end from nptr; with no digits
\* the result is 0 and end is nptr.  The texts of the model are short enough
\* that the value never reaches LONG_MAX.
strtol(nptr) ==
    LET i == SpaceRun(nptr, 0)
        signed == At(nptr, i) \in {"+", "-"}
        j == IF signed THEN i + 1 ELSE i
        n == DigitRun(nptr, j)
        mag == DecVal(SubSeq(nptr, j + 1, j + n))
    IN  IF n = 0 THEN [val |-> 0, end |-> 0]
        ELSE [val |-> IF At(nptr, i) = "-" THEN 0 - mag ELSE mag, end |-> j + n]

\* the pieces of s between separators sep
RECURSIVE Split(_, _)
Split(s, sep) ==
    LET hits == {k \in 1..Len(s) : s[k] = sep}
    IN  IF hits = {} THEN <<s>>
        ELSE LET k == CHOOSE x \in hits : \A m \in hits : x <= m
             IN  <<SubSeq(s, 1, k - 1)>> \o Split(SubSeq(s, k + 1, Len(s)), sep)

\* inet_pton(AF_INET, src, dst): 1 and the four address bytes in network
\* order when src is d.d.d.d, each d one to three decimal digits (no leading
\* zero) worth at most 255; 0 otherwise
inet_pton4(src) ==
    LET parts == Split(src, ".")
        okPart(p) == /\ Len(p) \in 1..3
                     /\ \A k \in 1..Len(p) : IsDigit(p[k])
                     /\ (Len(p) > 1 => p[1] # "0")
                     /\ DecVal(p) <= 255
    IN  IF Len(parts) = 4 /\ \A k \in 1..4 : okPart(parts[k])
        THEN [ret |-> 1, bytes |-> [k \in 1..4 |-> DecVal(parts[k])]]
        ELSE [ret |-> 0, bytes |-> <<>>]

HexChars == <<"0", "1", "2", "3", "4", "5", "6", "7", "8", "9",
              "a", "b", "c", "d", "e", "f">>
IsHex(c) == \E k \in 1..16 : HexChars[k] = c
RECURSIVE HexVal(_)
HexVal(s) ==
    IF s = <<>> THEN 0
    ELSE HexVal(SubSeq(s, 1, Len(s) - 1)) * 16
         + (CHOOSE k \in 1..16 : HexChars[k] = s[Len(s)]) - 1

\* inet_pton(AF_INET6, src, dst) for the colon-hexadecimal forms: eight
\* groups of one to four hex digits, or fewer with a single "::" standing
\* for the missing zero groups; 1 and the eight groups, or 0
inet_pton6(src) ==
    LET parts == Split(src, ":")
        n == Len(parts)
        empties == {k \in 1..n : parts[k] = <<>>}
        okGroup(p) == Len(p) <= 4 /\ \A k \in 1..Len(p) : IsHex(p[k])
        groups == {k \in 1..n : parts[k] # <<>>}
        \* the positions "::" may leave empty: one inner piece, plus the
        \* first or last piece when the text starts or ends with "::"
        inner == {k \in empties : k > 1 /\ k < n}
        gap == IF inner = {} THEN 0
               ELSE CHOOSE k \in inner : \A m \in inner : k <= m
        allowed == IF gap = 0 THEN {}
                   ELSE {gap} \cup (IF gap = 2 THEN {1} ELSE {})
                              \cup (IF gap = n - 1 THEN {n} ELSE {})
        before == {k \in groups : k < gap}
        after == {k \in groups : k > gap}
        value(k) ==
            IF gap = 0 THEN HexVal(parts[k])
            ELSE IF k <= Cardinality(before)
                 THEN HexVal(parts[CHOOSE x \in before :
                                 Cardinality({y \in before : y <= x}) = k])
            ELSE IF k > 8 - Cardinality(after)
                 THEN HexVal(parts[CHOOSE x \in after :
                                 Cardinality({y \in after : y <= x})
                                     = k - (8 - Cardinality(after))])
            ELSE 0
        ok == /\ \A k \in 1..n : okGroup(parts[k])
              /\ IF gap = 0 THEN empties = {} /\ n = 8
                 ELSE empties \subseteq allowed /\ Cardinality(groups) <= 7
    IN  IF ok THEN [ret |-> 1, groups |-> [k \in 1..8 |-> value(k)]]
        ELSE [ret |-> 0, groups |-> <<>>]

(***************************************************************************)
(* Port, Ipv4, Ipv6 and Address (net.h, net.cc).  An in_addr is its four   *)
(* bytes in memory order, an in6_addr its eight 16-bit groups; a 32-bit    *)
(* value is the pair <<high half, low half>> of 16-bit halves.             *)
(***************************************************************************)
\* Port::min() and Port::max(): the limits of uint16_t
PortMin == 0
PortMax == 65535
\* <netinet/in.h>
INET_ADDRSTRLEN == 16
INET6_ADDRSTRLEN == 46
\* <sys/un.h>: sizeof(sockaddr_un::sun_path)
SunPathLen == 108

\* Port(uint16_t port) given a long: the conversion to uint16_t
Port(p) == p % (PortMax + 1)

\* What a call leaves behind: the value it returned, the exception it threw,
\* or the process ending in a fault; damage names memory written outside
\* its object on the way.
NoValue == [sa_family |-> "none", port |-> 0, ip |-> <<>>, sun_path |-> <<>>]
Gives(v, d) == [kind |-> "returned", what |-> "", damage |-> d, value |-> v]
Raises(exc, msg, d) == [kind |-> exc, what |-> msg, damage |-> d,
                        value |-> NoValue]
Crash(msg) == [kind |-> "crash", what |-> msg, damage |-> "none",
               value |-> NoValue]
NoRet == [kind |-> "none", what |-> "", damage |-> "none", value |-> NoValue]

\* Ipv4::Ipv4(std::string_view host): host is copied into an uninitialised
\* array of INET_ADDRSTRLEN+1 chars and no terminator is written, so
\* inet_pton reads host followed by whatever the memory after it holds up to
\* the first zero byte (e.uninit).  A host longer than the array is written
\* past its end.  The value is the in_addr.
Ipv4_text(host, e) ==
    LET past == Len(host) > INET_ADDRSTRLEN + 1
        damage == IF past THEN "wrote past buff" ELSE "none"
        got == inet_pton4(host \o e.uninit)
    IN  IF past /\ e.wild = "trap" THEN Crash("std::copy wrote past buff")
        ELSE IF got.ret = 0
             THEN Raises("invalid_argument", "Invalid IPv4 address", damage)
        ELSE Gives(got.bytes, damage)

\* Ipv6::Ipv6(std::string_view host): as Ipv4_text, with an array of
\* INET6_ADDRSTRLEN+1 chars.  The value is the in6_addr.
Ipv6_text(host, e) ==
    LET past == Len(host) > INET6_ADDRSTRLEN + 1
        damage == IF past THEN "wrote past buff" ELSE "none"
        got == inet_pton6(host \o e.uninit)
    IN  IF past /\ e.wild = "trap" THEN Crash("std::copy wrote past buff")
        ELSE IF got.ret = 0
             THEN Raises("invalid_argument", "Invalid IPv6 address", damage)
        ELSE Gives(got.groups, damage)

\* static constexpr Ipv4 any() { return INADDR_ANY; }
Ipv4_any == <<0, 0, 0, 0>>

\* (b24 << 24) + (b16 << 16) + (b8 << 8) + b0 as a uint32_t
Shifted(b24, b16, b8, b0) == <<b24 * 256 + b16, b8 * 256 + b0>>

\* htonl(x): the identity on a big-endian host, a byte swap on a
\* little-endian one
htonl(x, bigEndian) ==
    LET swap16(h) == (h % 256) * 256 + (h \div 256)
    IN  IF bigEndian THEN x ELSE <<swap16(x[2]), swap16(x[1])>>

\* the bytes of a uint32_t in memory order
Stored(x, bigEndian) ==
    IF bigEndian
    THEN <<x[1] \div 256, x[1] % 256, x[2] \div 256, x[2] % 256>>
    ELSE <<x[2] % 256, x[2] \div 256, x[1] % 256, x[1] \div 256>>

\* Ipv4(std::array<uint8_t,4> bytes) : address_({htonl(0
\*     + (bytes[3] << 24) + (bytes[2] << 16) + (bytes[1] << 8) + bytes[0])})
\* b is 1-based here: b[1] is bytes[0].
Ipv4_bytes(b, bigEndian) ==
    Stored(htonl(Shifted(b[4], b[3], b[2], b[1]), bigEndian), bigEndian)

\* inet_ntop(AF_INET, src, dst, size): the four bytes at src, in memory
\* order, in decimal with dots between them
inet_ntop4(src) ==
    Dec(src[1]) \o <<".">> \o Dec(src[2]) \o <<".">> \o Dec(src[3])
        \o <<".">> \o Dec(src[4])

\* std::string to_string(const Ipv4& address)
to_string(address) == inet_ntop4(address)

\* Address::Address(const sockaddr* addr): the member of the union the
\* family names is copied; another family throws Error
Address(sa) ==
    IF sa.sa_family \in {"AF_INET", "AF_INET6", "AF_UNIX"}
    THEN Gives(sa, "none")
    ELSE Raises("Error", "Adress family not supported", "none")

\* Address::NetworkAddress(const Ipv4& ip, Port port): sin_port is the port
\* as given
NetworkAddress_Ipv4(ip, port) ==
    Address([sa_family |-> "AF_INET", port |-> port, ip |-> ip,
             sun_path |-> <<>>])

\* Address::NetworkAddress(const Ipv6& ip, Port port)
NetworkAddress_Ipv6(ip, port) ==
    Address([sa_family |-> "AF_INET6", port |-> port, ip |-> ip,
             sun_path |-> <<>>])

\* Address::family()
family(a) ==
    CASE a.sa_family = "AF_INET" -> "IPv4"
      [] a.sa_family = "AF_INET6" -> "IPv6"
      [] a.sa_family = "AF_UNIX" -> "Unix"
      [] OTHER -> "assert"

\* Address::port()
port(a) ==
    IF a.sa_family \in {"AF_INET", "AF_INET6"} THEN <<TRUE, Port(a.port)>>
    ELSE <<FALSE, Port(0)>>

\* Address::UnixAddress(const std::string& path): sun_path is zeroed and
\* path copied over it with no check of its length; a longer path is written
\* past sun_path, and what is returned holds the part that fits.
UnixAddress(path, e) ==
    LET past == Len(path) > SunPathLen
        sun_path == [k \in 1..SunPathLen |->
                        IF k <= Len(path) THEN path[k] ELSE NUL]
        made == Address([sa_family |-> "AF_UNIX", port |-> 0, ip |-> <<>>,
                         sun_path |-> sun_path])
    IN  IF past /\ e.wild = "trap" THEN Crash("std::copy wrote past sun_path")
        ELSE IF past THEN [made EXCEPT !.damage = "wrote past sun_path"]
        ELSE made

\* Address::NetworkAddress(std::string_view addr).  end stays null when the
\* text holds no ':', and *end is then a null dereference: it faults, or
\* reads a zero or a non-zero byte (e.wild).
NetworkAddress(addr, e) ==
    LET port_pos == rfind(addr, ":")
        ipv6_beg == find(addr, "[", port_pos)
        ipv6_end == find(addr, "]", 0)
        parsed == IF port_pos # npos THEN strtol(CStr(addr, port_pos + 1))
                  ELSE [val |-> 0, end |-> 0]
        atEnd == IF port_pos # npos
                 THEN At(addr, port_pos + 1 + parsed.end)
                 ELSE IF e.wild = "zero" THEN NUL ELSE "junk"
        portv == parsed.val
    IN  IF port_pos = npos /\ e.wild = "trap"
        THEN Crash("null end dereferenced")
        ELSE IF atEnd # NUL \/ portv < PortMin \/ portv > PortMax
        THEN Raises("invalid_argument", "Invalid port", "none")
        ELSE IF ipv6_beg # npos /\ ipv6_end # npos
        THEN \* string_view(&addr[ipv6_beg+1], ipv6_end-ipv6_beg)
             IF ipv6_end < ipv6_beg
             THEN Crash("string_view of a wrapped length copied")
             ELSE LET host == [k \in 1..(ipv6_end - ipv6_beg) |->
                                  At(addr, ipv6_beg + k)]
                      ip == Ipv6_text(host, e)
                  IN  IF ip.kind # "returned" THEN ip
                      ELSE [NetworkAddress_Ipv6(ip.value, Port(portv))
                               EXCEPT !.damage = ip.damage]
        ELSE \* string_view(addr.begin(), port_pos)
             IF port_pos = npos
             THEN Crash("string_view of npos characters copied")
             ELSE LET host == SubSeq(addr, 1, port_pos)
                      ip == IF host # <<"*">> THEN Ipv4_text(host, e)
                            ELSE Gives(Ipv4_any, "none")
                  IN  IF ip.kind # "returned" THEN ip
                      ELSE [NetworkAddress_Ipv4(ip.value, Port(portv))
                               EXCEPT !.damage = ip.damage]

(***************************************************************************)
(* The calls of the model and their arguments.                             *)
(***************************************************************************)
ValidIpv4 ==
    { [text |-> <<"1", "0", ".", "0", ".", "0", ".", "1">>, bytes |-> <<10, 0, 0, 1>>],
      [text |-> <<"1", ".", "2", ".", "3", ".", "4">>, bytes |-> <<1, 2, 3, 4>>],
      [text |-> <<"0", ".", "0", ".", "0", ".", "0">>, bytes |-> <<0, 0, 0, 0>>],
      [text |-> <<"2", "5", "5", ".", "2", "5", "5", ".", "2", "5", "5", ".", "2", "5", "5">>, bytes |-> <<255, 255, 255, 255>>],
      [text |-> <<"1", "2", "7", ".", "0", ".", "0", ".", "1">>, bytes |-> <<127, 0, 0, 1>>] }
Star == [text |-> <<"*">>, bytes |-> <<0, 0, 0, 0>>]
ValidIpv6 ==
    { [text |-> <<":", ":", "1">>, groups |-> <<0, 0, 0, 0, 0, 0, 0, 1>>],
      [text |-> <<"f", "e", "8", "0", ":", ":", "1">>, groups |-> <<65152, 0, 0, 0, 0, 0, 0, 1>>] }
ValidPorts ==
    { [text |-> <<"0">>, val |-> 0],
      [text |-> <<"8", "0">>, val |-> 80],
      [text |-> <<"1", "0", "2", "4">>, val |-> 1024],
      [text |-> <<"8", "0", "8", "0">>, val |-> 8080],
      [text |-> <<"6", "5", "5", "3", "5">>, val |-> 65535] }
\* trailing garbage, or a value outside 0..65535
BadPorts ==
    { <<"6", "5", "5", "3", "6">>,
      <<"9", "9", "9", "9", "9">>,
      <<"-", "1">>,
      <<"8", "0", "x">>,
      <<"x">>,
      <<"8", " ", "0">> }
\* neither: empty, white space or a sign before the digits, a leading zero
OtherPorts ==
    { <<>>,
      <<" ", "8", "0">>,
      <<"+", "8", "0">>,
      <<"0", "8", "0">> }
\* not IPv4 literals; the last two are longer than INET_ADDRSTRLEN+1
InvalidHosts ==
    { <<"b", "a", "d", "-", "h", "o", "s", "t">>,
      <<"1", ".", "2", ".", "3">>,
      <<"2", "5", "6", ".", "1", ".", "1", ".", "1">>,
      <<>>,
      <<"1", ".", "2", ".", "3", ".", "4", ".", "5">>,
      <<"1", ".", "2", ".", "3", ".", "x">>,
      <<"b", "a", "d", "-", "h", "o", "s", "t", "-", "w", "i", "t", "h", "-", "a", "-", "l", "o", "n", "g", "-", "n", "a", "m", "e">>,
      <<"1", ".", "2", ".", "3", ".", "4", ".", "5", ".", "6", ".", "7", ".", "8", ".", "9", ".">> }
Bracketed == {<<"[">> \o v.text \o <<"]">> : v \in ValidIpv6}
HalfBracketed ==
    { <<"[", ":", ":", "1">>,
      <<":", ":", "1", "]">> }
NoColonTexts ==
    { <<"l", "o", "c", "a", "l", "h", "o", "s", "t">>,
      <<"1", "0", ".", "0", ".", "0", ".", "1">>,
      <<>>,
      <<"*">>,
      <<"8", "0", "8", "0">>,
      <<"[", "1", "]">> }

HostTexts == {h.text : h \in ValidIpv4 \cup {Star}} \cup InvalidHosts
                 \cup Bracketed \cup HalfBracketed
PortTexts == {p.text : p \in ValidPorts} \cup BadPorts \cup OtherPorts
Texts == {h \o <<":">> \o p : h \in HostTexts, p \in PortTexts}
             \cup NoColonTexts

\* the bytes memory may hold after text copied into an uninitialised array,
\* up to the first zero byte
GarbageChars == {".", "4", "x"}
Garbage == UNION {[1..n -> GarbageChars] : n \in 0..MaxGarbage}
\* what an access outside every object does: the process faults, or the
\* access goes through and a read yields a zero or a non-zero byte
Wild == {"trap", "zero", "junk"}

ByteSamples == {0, 1, 2, 10, 127, 255}
Paths == {[k \in 1..n |-> "a"] : n \in 0..MaxPathLen}

NoEnv == [uninit |-> <<>>, wild |-> "trap", bigEndian |-> FALSE]

NetIdle ==
    /\ fn = "none" /\ arg = <<>> /\ env = NoEnv /\ pc = "idle" /\ ret = NoRet

NetInit ==
    /\ pc = "call" /\ ret = NoRet
    /\ \/ /\ fn = "NetworkAddress"
          /\ arg \in Texts
          /\ env \in [uninit : Garbage, wild : Wild, bigEndian : {FALSE}]
       \/ /\ fn = "to_string(Ipv4)"
          /\ arg \in [1..4 -> ByteSamples]
          /\ env \in [uninit : {<<>>}, wild : {"trap"}, bigEndian : BOOLEAN]
       \/ /\ fn = "UnixAddress"
          /\ arg \in Paths
          /\ env \in [uninit : {<<>>}, wild : Wild, bigEndian : {FALSE}]

\* Address::NetworkAddress(text) is called
Call_NetworkAddress ==
    /\ pc = "call" /\ fn = "NetworkAddress"
    /\ ret' = NetworkAddress(arg, env)
    /\ pc' = "done"
    /\ UNCHANGED <<fn, arg, env>>
    /\ UNCHANGED notNet

\* to_string(Ipv4(bytes)) is evaluated
Call_Ipv4_to_string ==
    /\ pc = "call" /\ fn = "to_string(Ipv4)"
    /\ ret' = Gives(to_string(Ipv4_bytes(arg, env.bigEndian)), "none")
    /\ pc' = "done"
    /\ UNCHANGED <<fn, arg, env>>
    /\ UNCHANGED notNet

\* Address::UnixAddress(path) is called
Call_UnixAddress ==
    /\ pc = "call" /\ fn = "UnixAddress"
    /\ ret' = UnixAddress(arg, env)
    /\ pc' = "done"
    /\ UNCHANGED <<fn, arg, env>>
    /\ UNCHANGED notNet

NetNext ==
    \/ Call_NetworkAddress
    \/ Call_Ipv4_to_string
    \/ Call_UnixAddress

(***************************************************************************)
(* Specifications.                                                         *)
(***************************************************************************)
Init == AddrInfoInit /\ HandlerInit /\ NetIdle

\* the AddrInfo objects of a program
Spec == Init /\ [][Next]_vars

\* the handlers of a program and the framework driving them
SpecHandler == Init /\ [][HandlerNext]_vars

\* one call of NetworkAddress(text), to_string(Ipv4(bytes)) or UnixAddress
InitNet == AddrInfoInit /\ HandlerInit /\ NetInit
SpecNet == InitNet /\ [][NetNext]_vars

(***************************************************************************)
(* Properties of AddrInfo.                                                 *)
(***************************************************************************)
Returned == {l \in Lists : listLen[l] > 0}
NoneLive == \A i \in Inst : ~live[i]

C3_SingleOwner ==
    \A i, j \in Inst :
        (i # j /\ live[i] /\ live[j] /\ addrs[i] # NULL) => addrs[i] # addrs[j]

\* a move has just happened and two live objects each own a list
C3_Witness ==
    /\ aiLast.op \in {"MoveCtor", "MoveAssign"}
    /\ \E i, j \in Inst :
        i # j /\ live[i] /\ live[j] /\ addrs[i] # NULL /\ addrs[j] # NULL

(***************************************************************************)
(* Properties of Tcp::Handler.                                             *)
(***************************************************************************)
\* C4: a transport() call on a handler no transport was associated with
\* ends in a logic error; a call made after associateTransport(t) returns t;
\* an associated handler keeps pointing at that transport.
C4_TransportAccessor ==
    \A h \in Handlers :
        /\ hLast[h] # NoCall =>
               hLast[h].outcome = IF hLast[h].assocAtCall = nullptr
                                  THEN Throws("logic_error")
                                  ELSE Returns(hLast[h].assocAtCall)
        /\ hAssoc[h] # nullptr => transport_[h] = hAssoc[h]

\* one handler was called while orphaned, another after its association
C4_Witness ==
    \E h, g \in Handlers :
        /\ hLast[h].outcome = Throws("logic_error")
        /\ hLast[g] # NoCall /\ hLast[g].assocAtCall # nullptr

(***************************************************************************)
(* Properties of the functions of net.cc.                                  *)
(***************************************************************************)
Done(f) == pc = "done" /\ fn = f

\* C5: NetworkAddress("[" + v6 + "]:" + p), for an IPv6 literal v6 and a
\* port p in 0..65535, returns an IPv6 address that is v6 with port()
\* (true, p).
C5_BracketedIpv6Parses ==
    Done("NetworkAddress") =>
        \A v \in ValidIpv6, p \in ValidPorts :
            arg = <<"[">> \o v.text \o <<"]", ":">> \o p.text =>
                /\ ret.kind = "returned"
                /\ family(ret.value) = "IPv6"
                /\ ret.value.ip = v.groups
                /\ port(ret.value) = <<TRUE, p.val>>

\* C6: NetworkAddress(h + ":" + p), for h an IPv4 literal or "*" and p a
\* decimal port in 0..65535, returns an address with port() (true, p), which
\* for "*" is the IPv4 wildcard address.
C6_HostPortParses ==
    Done("NetworkAddress") =>
        \A h \in ValidIpv4 \cup {Star}, p \in ValidPorts :
            arg = h.text \o <<":">> \o p.text =>
                /\ ret.kind = "returned"
                /\ port(ret.value) = <<TRUE, p.val>>
                /\ h = Star => /\ family(ret.value) = "IPv4"
                               /\ ret.value.ip = Ipv4_any

\* C7: to_string(Ipv4(b)) is b[0].b[1].b[2].b[3] in decimal.
C7_BytesRenderedInOrder ==
    Done("to_string(Ipv4)") =>
        /\ ret.kind = "returned"
        /\ ret.value = Dec(arg[1]) \o <<".">> \o Dec(arg[2]) \o <<".">>
                           \o Dec(arg[3]) \o <<".">> \o Dec(arg[4])

\* C8: UnixAddress(path) with a path longer than sun_path throws
\* InvalidArgument, writing nothing past sun_path and returning no truncated
\* address.
C8_LongPathRejected ==
    (Done("UnixAddress") /\ Len(arg) > SunPathLen) =>
        ret.kind = "invalid_argument" /\ ret.damage = "none"

\* C9: NetworkAddress(h + ":" + p) throws InvalidArgument and returns no
\* address when p has trailing garbage or a value outside 0..65535, and
\* when h is not an IPv4 literal.
C9_BadPortOrHostRejected ==
    Done("NetworkAddress") =>
        \A h \in {x.text : x \in ValidIpv4 \cup {Star}} \cup InvalidHosts,
           p \in PortTexts :
            (/\ arg = h \o <<":">> \o p
             /\ (p \in BadPorts \/ h \in InvalidHosts)) =>
                ret.kind = "invalid_argument"

\* C10: NetworkAddress(text) for a text without ':' throws InvalidArgument,
\* without a null dereference and without an access outside the text.
C10_NoColonFailsCleanly ==
    (Done("NetworkAddress") /\ rfind(arg, ":") = npos) =>
        ret.kind = "invalid_argument" /\ ret.damage = "none"

====
